---- MODULE Spec2Model ----
(***************************************************************************)
(* Model of the FileSplit component (src/src/FileSplit.tsx): one uploaded  *)
(* sheet is read, filtered on FinalStatus = DELIVERED, grouped by FleeName,*)
(* written as one workbook per group and packaged as a ZIP archive.        *)
(*                                                                         *)
(* A JavaScript string is a sequence of one-character strings; a column    *)
(* name is an opaque string; a row is a function from column names to cell *)
(* strings; a row reference is the row's index in jsonData.                *)
(***************************************************************************)
EXTENDS Integers, Sequences, FiniteSets, TLC

VARIABLES file, hubName, status, statusType, stats, progress,
          pc, sheetName, jsonData, deliveredData, groupedData, fileCount,
          processedFiles, zip, downloaded, timers, emitted, closure, suspended

vars == <<file, hubName, status, statusType, stats, progress,
          pc, sheetName, jsonData, deliveredData, groupedData, fileCount,
          processedFiles, zip, downloaded, timers, emitted, closure, suspended>>

uiVars == <<file, hubName, status, statusType, stats, progress>>
runVars == <<sheetName, jsonData, deliveredData, groupedData, fileCount,
             processedFiles, zip>>

----------------------------------------------------------------------------
(* Bounds of the model.                                                    *)

\* longest sheet drawn from the row pools
MaxRows == 3
\* longest sheet of pairwise distinct fleet names
MaxFleets == 11
\* pending "clear the progress bar" timers
MaxTimers == 1
\* processExcel calls that have not returned
MaxRuns == 2

----------------------------------------------------------------------------
(* JavaScript strings.                                                     *)

WhiteSpace == {" ", "\t"}

LowerCase == <<"a","b","c","d","e","f","g","h","i","j","k","l","m",
               "n","o","p","q","r","s","t","u","v","w","x","y","z">>
UpperCase == <<"A","B","C","D","E","F","G","H","I","J","K","L","M",
               "N","O","P","Q","R","S","T","U","V","W","X","Y","Z">>

ToUpperChar(c) ==
    IF \E i \in 1..Len(LowerCase) : LowerCase[i] = c
    THEN UpperCase[CHOOSE i \in 1..Len(LowerCase) : LowerCase[i] = c]
    ELSE c

\* String.prototype.toUpperCase
ToUpperCase(s) == [i \in 1..Len(s) |-> ToUpperChar(s[i])]

\* String.prototype.trim
Trim(s) ==
    LET keep == {i \in 1..Len(s) : s[i] \notin WhiteSpace}
    IN  IF keep = {} THEN <<>>
        ELSE LET a == CHOOSE i \in keep : \A j \in keep : i <= j
                 b == CHOOSE i \in keep : \A j \in keep : j <= i
             IN  SubSeq(s, a, b)

\* a || b on strings: the empty string is the only falsy string
OrElse(a, b) == IF a = <<>> THEN b ELSE a

sDELIVERED == <<"D","E","L","I","V","E","R","E","D">>
sUndefined == <<"u","n","d","e","f","i","n","e","d">>
sXlsx == <<".","x","l","s","x">>
sXls == <<".","x","l","s">>

----------------------------------------------------------------------------
(* JavaScript objects used as dictionaries.                                *)

Digits == <<"0","1","2","3","4","5","6","7","8","9">>
IsDigit(c) == \E i \in 1..10 : Digits[i] = c
DigitVal(c) == (CHOOSE i \in 1..10 : Digits[i] = c) - 1

\* 2^32 - 2, the largest array index, as a digit string
sMaxIndex == <<"4","2","9","4","9","6","7","2","9","4">>

\* s < t for digit strings of equal length
RECURSIVE DigitsLess(_, _)
DigitsLess(s, t) ==
    IF s = <<>> THEN FALSE
    ELSE IF DigitVal(Head(s)) # DigitVal(Head(t))
         THEN DigitVal(Head(s)) < DigitVal(Head(t))
         ELSE DigitsLess(Tail(s), Tail(t))

\* numeric order of canonical numeric strings
IndexLess(s, t) ==
    \/ Len(s) < Len(t)
    \/ Len(s) = Len(t) /\ DigitsLess(s, t)

\* a property key that is an array index: the canonical decimal form of an
\* integer in 0 .. 2^32 - 2
IsArrayIndex(s) ==
    /\ Len(s) >= 1
    /\ \A i \in 1..Len(s) : IsDigit(s[i])
    /\ Len(s) = 1 \/ s[1] # "0"
    /\ Len(s) <= Len(sMaxIndex)
    /\ ~ IndexLess(sMaxIndex, s)

RECURSIVE SortIndexKeys(_)
SortIndexKeys(S) ==
    IF S = {} THEN <<>>
    ELSE LET m == CHOOSE k \in S : \A o \in S : o = k \/ IndexLess(k, o)
         IN  <<m>> \o SortIndexKeys(S \ {m})

Range(q) == {q[i] : i \in 1..Len(q)}

IsIndexKey(k) == IsArrayIndex(k)
IsNameKey(k) == ~ IsArrayIndex(k)

\* Object.keys / Object.entries order of an object whose own keys were
\* created in the order ins: array indices ascending, then the other keys
\* in creation order
OwnKeys(ins) ==
    SortIndexKeys({k \in Range(ins) : IsArrayIndex(k)}) \o SelectSeq(ins, IsNameKey)

\* names every plain object inherits from Object.prototype
ObjectPrototypeKeys ==
    { <<"c","o","n","s","t","r","u","c","t","o","r">>,
      <<"t","o","S","t","r","i","n","g">>,
      <<"v","a","l","u","e","O","f">>,
      <<"_","_","p","r","o","t","o","_","_">> }

\* {} : ins lists the own keys in creation order, val maps each to its value
EmptyObject == [ins |-> <<>>, val |-> [k \in {} |-> <<>>]]

----------------------------------------------------------------------------
(* Sheets the user can select.                                             *)

sA == <<"A">>
sAPadded == <<" ","A"," ">>
sBlank == <<" "," ">>
s10 == <<"1","0">>
s2 == <<"2">>
sASlashB == <<"A","/","B">>
sAColonB == <<"A",":","B">>
sConstructor == <<"c","o","n","s","t","r","u","c","t","o","r">>
sDeliveredMixed == <<" ","d","e","l","i","v","e","r","e","d">>
sInTransit == <<"I","N","_","T","R","A","N","S","I","T">>
sDate == <<"2","0","2","4","-","0","1","-","0","2">>

FleetNames == {sA, sAPadded, <<>>, sBlank, s10, s2, sASlashB, sAColonB, sConstructor}

\* rows of sheets with the columns FleeName and FinalStatus: delivered rows
\* of every fleet name, and rows of every status of two fleet names
PlainRows == [FleeName : FleetNames, FinalStatus : {sDELIVERED}]
StatusRows == [FleeName : {sA, s2}, FinalStatus : {sDELIVERED, sDeliveredMixed, sInTransit, <<>>}]

\* rows of sheets with other headers
NoFleeRows == [FinalStatus : {sDELIVERED, sInTransit}]
NoStatusRows == [FleeName : {sA}]
WideHeader == {"FleeName", "FinalStatus", "sync time", "planDeliveryDate"}
WideRow(f) ==
    [c \in WideHeader |->
        IF c = "FleeName" THEN f ELSE IF c = "FinalStatus" THEN sDELIVERED ELSE sDate]
WideRows == {WideRow(sA), WideRow(s2)}
ShadowRows == [FleeName : {sA}, FinalStatus : {sDELIVERED}, hasOwnProperty : {sA}]
ShadowNoFleeRows == [FinalStatus : {sDELIVERED}, hasOwnProperty : {sA}]

RowPools == {PlainRows, StatusRows, NoFleeRows, NoStatusRows, WideRows, ShadowRows, ShadowNoFleeRows}

\* the i-th of a family of pairwise distinct fleet names: "F", "FF", ...
FleetNo(i) == [j \in 1..i |-> "F"]

LongSheet(n) == [i \in 1..n |-> [FleeName |-> FleetNo(i), FinalStatus |-> sDELIVERED]]

sReportXlsx == <<"r","e","p","o","r","t",".","x","l","s","x">>
sNotesTxt == <<"n","o","t","e","s",".","t","x","t">>

Workbook(rows) == [name |-> sReportXlsx, readable |-> TRUE, sheet |-> "Sheet1", rows |-> rows]
Unreadable == [name |-> sReportXlsx, readable |-> FALSE, sheet |-> "", rows |-> <<>>]
NotExcel == [name |-> sNotesTxt, readable |-> FALSE, sheet |-> "", rows |-> <<>>]

Files ==
    {Workbook(rows) : rows \in UNION {[1..n -> pool] : n \in 0..MaxRows, pool \in RowPools}}
    \cup {Workbook(LongSheet(n)) : n \in (MaxRows + 1)..MaxFleets}
    \cup {Unreadable}

\* what a drop on the upload area carries: no file, or one of a few files
DroppedFiles ==
    { <<>>,
      <<NotExcel>>,
      <<Workbook(<<>>)>>,
      <<Workbook(<<[FleeName |-> sA, FinalStatus |-> sDELIVERED]>>)>>,
      <<Workbook(<<[FleeName |-> sA, FinalStatus |-> sDELIVERED],
                   [FleeName |-> s2, FinalStatus |-> sDELIVERED]>>)>> }

Hubs == {<<>>, <<" ">>, <<" ","H","1">>}

\* String.prototype.endsWith
EndsWith(s, suffix) ==
    /\ Len(suffix) <= Len(s)
    /\ SubSeq(s, Len(s) - Len(suffix) + 1, Len(s)) = suffix

----------------------------------------------------------------------------
(* The steps of processExcel as functions of its local values.             *)

\* row[col] || alt : a missing cell (undefined) and '' are both falsy
GetOr(row, col, alt) == IF col \in DOMAIN row THEN OrElse(row[col], alt) ELSE alt

\* XLSX.utils.sheet_to_json(worksheet, {raw: false, defval: ''})
SheetToJson(f) == f.rows

\* firstRow.hasOwnProperty('FleeName'): the method is looked up on the row
\* itself first, where a column of that name holds a string
HasFleeName(firstRow) ==
    IF "hasOwnProperty" \in DOMAIN firstRow THEN "TypeError"
    ELSE IF "FleeName" \in DOMAIN firstRow THEN "true" ELSE "false"

\* the comparison with the trim left out
IsDeliveredUntrimmed(row) == ToUpperCase(GetOr(row, "FinalStatus", <<>>)) = sDELIVERED

\* String(row.FinalStatus || '').toUpperCase().trim() === 'DELIVERED'
IsDelivered(row) == Trim(ToUpperCase(GetOr(row, "FinalStatus", <<>>))) = sDELIVERED

\* jsonData.filter(...), as references into jsonData
RECURSIVE FilterFrom(_, _)
FilterFrom(rows, i) ==
    IF i > Len(rows) THEN <<>>
    ELSE (IF IsDelivered(rows[i]) THEN <<i>> ELSE <<>>) \o FilterFrom(rows, i + 1)

FilterDelivered(rows) == FilterFrom(rows, 1)

\* String(row.FleeName || 'undefined').trim()
FleeNameOf(row) == Trim(GetOr(row, "FleeName", sUndefined))

\* the push replaced by an assignment of a fresh one-row array
PushRowReplacing(obj, k, ref) == [obj EXCEPT !.val[k] = <<ref>>]

\* groupedData[fleeName].push(row) on an own array
PushRow(obj, k, ref) == [obj EXCEPT !.val[k] = Append(@, ref)]

\* groupedData[fleeName] = []
NewGroup(obj, k) == [ins |-> Append(obj.ins, k), val |-> obj.val @@ (k :> <<>>)]

\* one call of the forEach callback; acc.threw once the callback has thrown
GroupRow(acc, k, ref) ==
    IF acc.threw THEN acc
    ELSE IF k \in DOMAIN acc.obj.val
         THEN [acc EXCEPT !.obj = PushRow(acc.obj, k, ref)]
    ELSE IF k \in ObjectPrototypeKeys
         \* the inherited value is truthy and has no push
         THEN [acc EXCEPT !.threw = TRUE]
    ELSE [acc EXCEPT !.obj = PushRow(NewGroup(acc.obj, k), k, ref)]

RECURSIVE GroupFrom(_, _, _, _)
GroupFrom(rows, refs, i, acc) ==
    IF i > Len(refs) THEN acc
    ELSE GroupFrom(rows, refs, i + 1, GroupRow(acc, FleeNameOf(rows[refs[i]]), refs[i]))

\* deliveredData.forEach(...)
GroupByFleeName(rows, refs) ==
    GroupFrom(rows, refs, 1, [threw |-> FALSE, obj |-> EmptyObject])

ExcludedColumns == {"sync time", "planDeliveryDate"}

\* { ...row } with the two columns deleted
ProjectRow(row) == [c \in DOMAIN row \ ExcludedColumns |-> row[c]]

ColumnWidth == 15

\* the workbook written for one group
GroupWorkbook(rows, refs, sheet) ==
    LET filteredData == [i \in 1..Len(refs) |-> ProjectRow(rows[refs[i]])]
    IN  [sheet |-> sheet,
         rows |-> filteredData,
         cols |-> [c \in DOMAIN filteredData[1] |-> ColumnWidth]]

IllegalChars == {"<", ">", ":", "\"", "/", "\\", "|", "?", "*"}

\* fleeName.replace(/[<>:"/\\|?*]/g, '_').trim()
CleanFleeName(k) == Trim([i \in 1..Len(k) |-> IF k[i] \in IllegalChars THEN "_" ELSE k[i]])

\* zip.file(name, data): an entry of the same name is replaced
ZipFile(z, name, data) == [n \in DOMAIN z \cup {name} |-> IF n = name THEN data ELSE z[n]]

\* the per-group progress spread over 40 points instead of 30
GroupPercentOverForty(p, n) == (2 * (60 * n + 40 * p) + n) \div (2 * n)

\* Math.round(60 + (processedFiles / fileCount) * 30)
GroupPercent(p, n) == (2 * (60 * n + 30 * p) + n) \div (2 * n)

PackagingPercent == 95

FileNamesShown == 10

\* the list of keys without the slice
FileNamesUnsliced(keys) == keys

\* Object.keys(groupedData).slice(0, 10)
FileNames(keys) ==
    SubSeq(keys, 1, IF Len(keys) < FileNamesShown THEN Len(keys) ELSE FileNamesShown)

\* the download triggered however zip.generateAsync settles
DownloadAlways(resolved, hub, z, before) ==
    <<[name |-> hub \o <<".","z","i","p">>, files |-> z]>>

\* what downloadLink.click() hands to the browser once zip.generateAsync has
\* settled: the archive when it resolved, nothing more when it rejected
Download(resolved, hub, z, before) ==
    IF resolved THEN <<[name |-> hub \o <<".","z","i","p">>, files |-> z]>> ELSE before

----------------------------------------------------------------------------
(* The component.  null is <<>> and a value v is <<v>>; the progress      *)
(* string '' is <<>> and `${n}%` is <<n>>; a status message is the tuple   *)
(* of its text and its interpolated values.                                *)

\* processExcel is suspended at an await, or is not running: the only
\* positions at which an event handler or a timer callback can run
AtYield == pc \in {"Idle", "Reading", "Archiving", "Done", "Failed"}

InFlight == pc \in {"Reading", "Filtering", "Grouping", "Exporting", "Archiving"}

Init ==
    /\ file = <<>>
    /\ hubName = <<>>
    /\ status = <<>>
    /\ statusType = "idle"
    /\ stats = <<>>
    /\ progress = <<>>
    /\ pc = "Idle"
    /\ sheetName = ""
    /\ jsonData = <<>>
    /\ deliveredData = <<>>
    /\ groupedData = EmptyObject
    /\ fileCount = 0
    /\ processedFiles = 0
    /\ zip = [n \in {} |-> <<>>]
    /\ downloaded = <<>>
    /\ timers = 0
    /\ emitted = <<>>
    /\ closure = <<>>
    /\ suspended = <<>>

\* the locals of the processExcel call the run variables show
Locals ==
    [pc |-> pc, sheetName |-> sheetName, jsonData |-> jsonData,
     deliveredData |-> deliveredData, groupedData |-> groupedData,
     fileCount |-> fileCount, processedFiles |-> processedFiles, zip |-> zip,
     downloaded |-> downloaded, emitted |-> emitted, closure |-> closure]

\* the file input's onChange; the input is opened only while no file is set
handleFileChange ==
    /\ AtYield
    /\ file = <<>>
    /\ \E selectedFile \in Files, hub \in Hubs :
          IF Trim(hub) # <<>>
          THEN /\ hubName' = Trim(hub)
               /\ file' = <<selectedFile>>
               /\ status' = <<>>
               /\ statusType' = "idle"
               /\ stats' = <<>>
          ELSE UNCHANGED <<hubName, file, status, statusType, stats>>
    /\ UNCHANGED <<progress, pc, runVars, downloaded, timers, emitted, closure, suspended>>

\* the upload area's onDrop; it is bound whatever the status type is
handleDrop ==
    /\ AtYield
    /\ \E files \in DroppedFiles, hub \in Hubs :
          IF Len(files) > 0
          THEN LET droppedFile == files[1]
               IN  IF EndsWith(droppedFile.name, sXlsx) \/ EndsWith(droppedFile.name, sXls)
                   THEN IF Trim(hub) # <<>>
                        THEN /\ hubName' = Trim(hub)
                             /\ file' = <<droppedFile>>
                             /\ status' = <<>>
                             /\ statusType' = "idle"
                             /\ stats' = <<>>
                        ELSE UNCHANGED <<hubName, file, status, statusType, stats>>
                   ELSE /\ status' = <<"Please upload Excel file (.xlsx or .xls)">>
                        /\ statusType' = "error"
                        /\ UNCHANGED <<hubName, file, stats>>
          ELSE UNCHANGED <<hubName, file, status, statusType, stats>>
    /\ UNCHANGED <<progress, pc, runVars, downloaded, timers, emitted, closure, suspended>>

\* the locals of a processExcel call that has returned are unreachable
Forget ==
    /\ pc' = "Idle"
    /\ sheetName' = ""
    /\ jsonData' = <<>>
    /\ deliveredData' = <<>>
    /\ groupedData' = EmptyObject
    /\ fileCount' = 0
    /\ processedFiles' = 0
    /\ zip' = [n \in {} |-> <<>>]
    /\ downloaded' = <<>>
    /\ emitted' = <<>>
    /\ closure' = <<>>

\* the Select Again button
resetFile ==
    /\ AtYield
    /\ file # <<>>
    /\ statusType # "processing"
    /\ file' = <<>>
    /\ status' = <<>>
    /\ statusType' = "idle"
    /\ stats' = <<>>
    /\ progress' = <<>>
    /\ hubName' = <<>>
    /\ IF InFlight THEN UNCHANGED <<pc, runVars, downloaded, emitted, closure>> ELSE Forget
    /\ UNCHANGED <<timers, suspended>>

\* the Start Processing button, up to the first await
processExcel ==
    /\ AtYield
    /\ file # <<>>
    /\ statusType # "processing"
    /\ timers < MaxTimers
    /\ status' = <<"Reading file...">>
    /\ statusType' = "processing"
    /\ progress' = <<10>>
    /\ emitted' = <<progress'>>
    /\ closure' = [file |-> file[1], hubName |-> hubName]
    /\ pc' = "Reading"
    /\ sheetName' = ""
    /\ jsonData' = <<>>
    /\ deliveredData' = <<>>
    /\ groupedData' = EmptyObject
    /\ fileCount' = 0
    /\ processedFiles' = 0
    /\ zip' = [n \in {} |-> <<>>]
    /\ downloaded' = <<>>
    /\ InFlight => Len(suspended) + 1 < MaxRuns
    /\ suspended' = IF InFlight THEN Append(suspended, Locals) ELSE suspended
    /\ UNCHANGED <<file, hubName, stats, timers>>

\* an early return with a message
Reject(message, sent) ==
    /\ status' = message
    /\ statusType' = "error"
    /\ progress' = <<>>
    /\ emitted' = emitted \o sent \o <<progress'>>
    /\ pc' = "Failed"

\* the catch block
Catch(message, sent) == Reject(<<"Processing failed: ", message>>, sent)

\* the file is read and parsed, and the sheet is checked
ReadFile ==
    /\ pc = "Reading"
    /\ LET f == closure.file
           rows == SheetToJson(f)
       IN  IF ~ f.readable
           THEN /\ Catch("File is not a workbook", <<>>)
                /\ UNCHANGED <<sheetName, jsonData>>
           ELSE /\ sheetName' = f.sheet
                /\ jsonData' = rows
                /\ IF Len(rows) = 0
                   THEN Reject(<<"Excel file is empty">>, << <<25>> >>)
                   ELSE CASE HasFleeName(rows[1]) = "TypeError" ->
                               Catch("firstRow.hasOwnProperty is not a function",
                                     << <<25>>, <<40>> >>)
                          [] HasFleeName(rows[1]) = "false" ->
                               Reject(<<"Column \"FleeName\" not found">>,
                                      << <<25>>, <<40>> >>)
                          [] OTHER ->
                               /\ progress' = <<40>>
                               /\ emitted' = emitted \o << <<25>>, <<40>> >>
                               /\ pc' = "Filtering"
                               /\ UNCHANGED <<status, statusType>>
    /\ UNCHANGED <<file, hubName, stats, deliveredData, groupedData, fileCount,
                   processedFiles, zip, downloaded, timers, closure, suspended>>

\* the rows are filtered on FinalStatus
FilterRows ==
    /\ pc = "Filtering"
    /\ deliveredData' = FilterDelivered(jsonData)
    /\ IF Len(deliveredData') = 0
       THEN Reject(<<"No records with FinalStatus = DELIVERED found">>, <<>>)
       ELSE /\ status' = <<"Grouping data...">>
            /\ progress' = <<50>>
            /\ emitted' = Append(emitted, progress')
            /\ pc' = "Grouping"
            /\ UNCHANGED statusType
    /\ UNCHANGED <<file, hubName, stats, sheetName, jsonData, groupedData, fileCount,
                   processedFiles, zip, downloaded, timers, closure, suspended>>

\* the delivered rows are grouped by FleeName and the archive is created
GroupRows ==
    /\ pc = "Grouping"
    /\ LET r == GroupByFleeName(jsonData, deliveredData)
       IN  IF r.threw
           THEN /\ Catch("groupedData[fleeName].push is not a function", <<>>)
                /\ UNCHANGED <<groupedData, fileCount>>
           ELSE /\ groupedData' = r.obj
                /\ fileCount' = Len(OwnKeys(r.obj.ins))
                /\ status' = <<"Generating files...", fileCount'>>
                /\ progress' = <<60>>
                /\ emitted' = Append(emitted, progress')
                /\ pc' = "Exporting"
                /\ UNCHANGED statusType
    /\ UNCHANGED <<file, hubName, stats, sheetName, jsonData, deliveredData,
                   processedFiles, zip, downloaded, timers, closure, suspended>>

\* one iteration of the loop over Object.entries(groupedData)
ExportGroup ==
    /\ pc = "Exporting"
    /\ processedFiles < fileCount
    /\ LET fleeName == OwnKeys(groupedData.ins)[processedFiles + 1]
           data == groupedData.val[fleeName]
       IN  zip' = ZipFile(zip, CleanFleeName(fleeName) \o sXlsx,
                          GroupWorkbook(jsonData, data, sheetName))
    /\ processedFiles' = processedFiles + 1
    /\ progress' = <<GroupPercent(processedFiles', fileCount)>>
    /\ emitted' = Append(emitted, progress')
    /\ UNCHANGED <<file, hubName, status, statusType, stats, pc, sheetName, jsonData,
                   deliveredData, groupedData, fileCount, downloaded, timers, closure, suspended>>

\* the loop is left and zip.generateAsync is awaited
StartPackaging ==
    /\ pc = "Exporting"
    /\ processedFiles = fileCount
    /\ status' = <<"Packaging files...">>
    /\ progress' = <<PackagingPercent>>
    /\ emitted' = Append(emitted, progress')
    /\ pc' = "Archiving"
    /\ UNCHANGED <<file, hubName, statusType, stats, runVars, downloaded, timers,
                   closure, suspended>>

\* zip.generateAsync settles: the archive is downloaded, or the catch block runs
GenerateZip(resolved) ==
    /\ pc = "Archiving"
    /\ downloaded' = Download(resolved, closure.hubName, zip, downloaded)
    /\ IF resolved
       THEN /\ stats' = <<[totalRows |-> Len(deliveredData),
                           uniqueFiles |-> fileCount,
                           fileNames |-> FileNames(OwnKeys(groupedData.ins))]>>
            /\ status' = <<"Success! Generated Excel files", fileCount>>
            /\ statusType' = "success"
            /\ progress' = <<100>>
            /\ emitted' = Append(emitted, progress')
            /\ timers' = timers + 1
            /\ pc' = "Done"
       ELSE /\ Catch("archive could not be generated", <<>>)
            /\ UNCHANGED <<stats, timers>>
    /\ UNCHANGED <<file, hubName, runVars, closure, suspended>>

\* setTimeout(() => setProgress(''), 3000)
ClearProgress ==
    /\ AtYield
    /\ timers > 0
    /\ timers' = timers - 1
    /\ progress' = <<>>
    \* a run in flight sees the reset; a reset that follows a reset adds nothing
    /\ emitted' = IF InFlight /\ emitted[Len(emitted)] # <<>>
                  THEN Append(emitted, progress')
                  ELSE emitted
    /\ UNCHANGED <<file, hubName, status, statusType, stats, pc, runVars, downloaded,
                   closure, suspended>>

\* the event loop continues another processExcel call that waits at its
\* await: the run variables show that call from now on, and the call shown
\* so far waits in its place unless it has returned
Resume ==
    /\ AtYield
    /\ \E i \in 1..Len(suspended) :
          LET r == suspended[i]
              rest == [j \in 1..(Len(suspended) - 1) |->
                          IF j < i THEN suspended[j] ELSE suspended[j + 1]]
          IN  /\ pc' = r.pc
              /\ sheetName' = r.sheetName
              /\ jsonData' = r.jsonData
              /\ deliveredData' = r.deliveredData
              /\ groupedData' = r.groupedData
              /\ fileCount' = r.fileCount
              /\ processedFiles' = r.processedFiles
              /\ zip' = r.zip
              /\ downloaded' = r.downloaded
              /\ emitted' = r.emitted
              /\ closure' = r.closure
              /\ suspended' = IF InFlight THEN Append(rest, Locals) ELSE rest
    /\ UNCHANGED <<uiVars, timers>>

Next ==
    \/ handleFileChange
    \/ resetFile
    \/ processExcel
    \/ ReadFile
    \/ FilterRows
    \/ GroupRows
    \/ ExportGroup
    \/ StartPackaging
    \/ \E resolved \in BOOLEAN : GenerateZip(resolved)
    \/ ClearProgress

Spec == Init /\ [][Next]_vars

\* the component when files arrive by drag and drop
NextDrop ==
    \/ handleDrop
    \/ resetFile
    \/ processExcel
    \/ ReadFile
    \/ FilterRows
    \/ GroupRows
    \/ ExportGroup
    \/ StartPackaging
    \/ \E resolved \in BOOLEAN : GenerateZip(resolved)
    \/ ClearProgress
    \/ Resume

SpecDrop == Init /\ [][NextDrop]_vars

----------------------------------------------------------------------------
(* Properties.                                                             *)

\* groupedData holds the result of a grouping that completed
Grouped == pc \in {"Exporting", "Archiving", "Done"}

\* the group keys of the delivered rows, in the order of deliveredData
DeliveredKeys == [i \in 1..Len(deliveredData) |-> FleeNameOf(jsonData[deliveredData[i]])]

\* the distinct members of q, each at the place of its first occurrence
RECURSIVE FirstSeenFrom(_, _)
FirstSeenFrom(q, i) ==
    IF i > Len(q) THEN <<>>
    ELSE (IF \E j \in 1..(i - 1) : q[j] = q[i] THEN <<>> ELSE <<q[i]>>)
         \o FirstSeenFrom(q, i + 1)

FirstSeen(q) == FirstSeenFrom(q, 1)

\* C1: the groups are iterated (exported, listed) in the order in which
\* their keys first occur among the delivered rows, whatever the key strings
C1_GroupOrderIsFirstSeen ==
    Grouped => OwnKeys(groupedData.ins) = FirstSeen(DeliveredKeys)

\* the key the specification gives a row: its trimmed FleeName, or
\* "undefined" when nothing is left after trimming
TrimmedKey(row) ==
    IF Trim(row.FleeName) = <<>> THEN sUndefined ELSE Trim(row.FleeName)

\* C2: every delivered row is in the group named by its trimmed FleeName,
\* and in the group "undefined" when the trimmed FleeName is empty
C2_KeyIsTrimmedOrUndefined ==
    Grouped =>
        \A i \in 1..Len(deliveredData) :
            LET k == TrimmedKey(jsonData[deliveredData[i]])
            IN  /\ k \in DOMAIN groupedData.val
                /\ deliveredData[i] \in Range(groupedData.val[k])

\* C3: a run that reaches Done has downloaded an archive with as many
\* entries as there are groups
C3_EntryPerGroup ==
    pc = "Done" =>
        Cardinality(DOMAIN downloaded[1].files) = Cardinality(DOMAIN groupedData.val)

\* the position of a row reference in deliveredData
PosIn(q, x) == CHOOSE i \in 1..Len(q) : q[i] = x

\* the places (group, index) at which groupedData holds the reference ref
PlacesOf(ref) ==
    {<<k, i>> \in UNION {{k} \X (1..Len(groupedData.val[k])) : k \in DOMAIN groupedData.val} :
        groupedData.val[k][i] = ref}

\* C4: the groups partition the delivered rows: each delivered row is at
\* exactly one place of exactly one group, the groups hold nothing else, and
\* each group keeps the order of deliveredData
C4_GroupsPartitionDelivered ==
    Grouped =>
        /\ \A i \in 1..Len(deliveredData) : Cardinality(PlacesOf(deliveredData[i])) = 1
        /\ \A k \in DOMAIN groupedData.val :
              /\ Range(groupedData.val[k]) \subseteq Range(deliveredData)
              /\ \A i, j \in 1..Len(groupedData.val[k]) :
                    i < j => PosIn(deliveredData, groupedData.val[k][i])
                             < PosIn(deliveredData, groupedData.val[k][j])

\* a second row joined the first group after another group was created
C4_Witness ==
    /\ Grouped
    /\ Cardinality(DOMAIN groupedData.val) = 2
    /\ \E k \in DOMAIN groupedData.val : groupedData.val[k] = <<1, 3>>

\* two characters that are the same letter in either case
SameLetter(a, b) ==
    \/ a = b
    \/ \E n \in 1..Len(LowerCase) : {a, b} = {LowerCase[n], UpperCase[n]}

EqualIgnoringCase(s, t) ==
    /\ Len(s) = Len(t)
    /\ \A i \in 1..Len(s) : SameLetter(s[i], t[i])

\* the rows the specification selects
Wanted(row) ==
    /\ "FinalStatus" \in DOMAIN row
    /\ EqualIgnoringCase(Trim(row.FinalStatus), sDELIVERED)

\* deliveredData holds the result of the filter
Filtered ==
    \/ pc \in {"Grouping", "Exporting", "Archiving", "Done"}
    \/ pc = "Failed" /\ status = <<"No records with FinalStatus = DELIVERED found">>

\* C5: the filtered rows are the rows of the sheet whose trimmed FinalStatus
\* is DELIVERED in any case, in the order of the sheet; a row without a
\* FinalStatus is not among them
C5_FilterSelectsDelivered ==
    Filtered =>
        /\ Range(deliveredData) = {i \in 1..Len(jsonData) : Wanted(jsonData[i])}
        /\ \A i, j \in 1..Len(deliveredData) : i < j => deliveredData[i] < deliveredData[j]

\* a row in mixed case with surrounding blanks was selected and another dropped
C5_Witness ==
    /\ pc = "Grouping"
    /\ Len(deliveredData) < Len(jsonData)
    /\ \E i \in Range(deliveredData) : jsonData[i].FinalStatus = sDeliveredMixed

\* C6 as stated: the success result lists every group key
C6_ListsEveryGroup ==
    pc = "Done" =>
        /\ stats[1].totalRows = Len(deliveredData)
        /\ Len(stats[1].fileNames) = Cardinality(DOMAIN groupedData.val)

Min(a, b) == IF a < b THEN a ELSE b

\* C6 amended: the success result carries the number of filtered rows, the
\* number of groups, and the first ten group keys at most, in group order
C6_ListsFirstTenGroups ==
    pc = "Done" =>
        /\ stats[1].totalRows = Len(deliveredData)
        /\ stats[1].uniqueFiles = Cardinality(DOMAIN groupedData.val)
        /\ Len(stats[1].fileNames) = Min(Cardinality(DOMAIN groupedData.val), FileNamesShown)
        /\ \A i \in 1..Len(stats[1].fileNames) :
              stats[1].fileNames[i] = OwnKeys(groupedData.ins)[i]

\* a run with more groups than are listed has succeeded
C6_Witness ==
    /\ pc = "Done"
    /\ Cardinality(DOMAIN groupedData.val) > FileNamesShown

\* C7: of two percentages emitted in one run, the later is not the smaller;
\* only the empty progress string may come in between
C7_ProgressNeverDecreases ==
    \A i, j \in 1..Len(emitted) :
        (i < j /\ emitted[i] # <<>> /\ emitted[j] # <<>>) => emitted[i][1] <= emitted[j][1]

\* a run over three groups or more has emitted one value per group, 95 and 100
C7_Witness ==
    /\ pc = "Done"
    /\ fileCount >= 3
    /\ \E i \in 1..Len(emitted) :
          /\ emitted[i] = <<GroupPercent(1, fileCount)>>
          /\ emitted[i + fileCount] = <<PackagingPercent>>
          /\ emitted[i + fileCount + 1] = <<100>>

\* C8: a failed run has downloaded nothing, and a download happens only
\* once every group is written and the archive is generated
C8_NoArchiveOnFailure ==
    /\ pc = "Failed" => downloaded = <<>>
    /\ downloaded # <<>> =>
          /\ pc = "Done"
          /\ processedFiles = Cardinality(DOMAIN groupedData.val)
          /\ downloaded[1].files = zip

\* a run failed after every group was written to the archive
C8_Witness ==
    /\ pc = "Failed"
    /\ fileCount > 0
    /\ processedFiles = fileCount
    /\ DOMAIN zip # {}

\* the run ended in Failed before grouping, with the progress cleared last
FailedEarly(message) ==
    /\ pc = "Failed"
    /\ status = message
    /\ groupedData = EmptyObject
    /\ DOMAIN zip = {}
    /\ \A i \in 1..Len(emitted) : emitted[i] # <<50>>
    /\ emitted[Len(emitted)] = <<>>
    /\ progress = <<>>

C10_GroupingNeverFails == [][pc = "Grouping" => pc' = "Exporting"]_vars

\* the processExcel calls that have not returned
RunsInFlight == (IF InFlight THEN 1 ELSE 0) + Len(suspended)

\* C11: at most one run is in flight at any time: no user event at an await
\* of a run starts a second run
C11_OneRunInFlight == RunsInFlight <= 1

====
